---- MODULE Spec2Model ----
(***************************************************************************)
(* A model of shogo82148/jsonstore (src/jsonstore.go): the lock-guarded    *)
(* store, snapshots, Save / SaveAndRename on a small file system with      *)
(* inodes, and the autosave goroutine with its save/stop/done channels.    *)
(***************************************************************************)
EXTENDS Integers, Sequences, FiniteSets, TLC

\* ------------------------------------------------------------------ bounds

\* Cap on setCount (the guard of Set), so the counters stay bounded.
MaxSets == 2
\* time.Now().Unix() runs from 0 to MaxTime.
MaxTime == 1
\* I/O operations that fail in one run.
MaxFaults == 1
\* Calls of StopAutoSave the controller makes.
MaxStops == 2

\* ------------------------------------------------------------ the universe

Keys == {"a", "b"}

NoErr == ""
ErrUnsupported == "json: unsupported type"
\* NoSuchKeyError{key}.Error()
NoSuchKeyError(key) == "jsonstore: no such key \"" \o key \o "\""
ErrIO == "io error"
ErrNotExist == "no such file or directory"

IntVal(n) == [kind |-> "int", n |-> n, s |-> ""]
StrVal(s) == [kind |-> "str", n |-> 0, s |-> s]
ChanVal == [kind |-> "chan", n |-> 0, s |-> ""]
\* The values callers pass to Set: two encodable ones and one that is not.
Values == {IntVal(1), StrVal("x"), ChanVal}
\* A nil interface value, which json.Marshal encodes as null.
NilVal == [kind |-> "nil", n |-> 0, s |-> ""]

\* Goroutines: foreground callers of Set/Get/Delete/Keys/Size, callers of
\* Save/SaveAndRename, the autosave goroutines (one per StartAutoSave call),
\* and the goroutine that calls StartAutoSave/StopAutoSave.
Callers == {<<"caller", 1>>, <<"caller", 2>>}
Savers == {<<"saver", 1>>, <<"saver", 2>>}
Tasks == {<<"task", 1>>, <<"task", 2>>}
Ctl == <<"ctl", 0>>
NoProc == <<"none", 0>>

\* ------------------------------------------------------------------- codec

Digit(n) == <<"0", "1", "2", "3", "4", "5", "6", "7", "8", "9">>[n + 1]

\* encoding/json writes the characters <, > and & of a string as \u escapes
\* (EscapeHTML is on in Marshal and in an Encoder), and reads them back.
EscapeHTML(c) == IF c = "<" THEN "\\u003c" ELSE c
Unescape(c) == IF c = "\\u003c" THEN "<" ELSE c

\* json.Marshal(value) on the value domain: the JSON text, or an error.
Marshal(v) ==
  CASE v.kind = "int" -> [err |-> NoErr, b |-> <<Digit(v.n)>>]
    [] v.kind = "str" -> [err |-> NoErr, b |-> <<"\"", EscapeHTML(v.s), "\"">>]
    [] v.kind = "nil" -> [err |-> NoErr, b |-> <<"null">>]
    [] OTHER -> [err |-> ErrUnsupported, b |-> <<>>]

\* json.Unmarshal(b, &v) into an interface{} destination.
Unmarshal(b) ==
  IF Len(b) = 1 /\ \E n \in 0..9 : Digit(n) = b[1]
    THEN [err |-> NoErr, v |-> IntVal(CHOOSE n \in 0..9 : Digit(n) = b[1])]
  ELSE IF Len(b) = 3 /\ b[1] = "\"" /\ b[3] = "\"" /\ b[2] # "\""
    THEN [err |-> NoErr, v |-> StrVal(Unescape(b[2]))]
  ELSE IF b = <<"null">>
    THEN [err |-> NoErr, v |-> NilVal]
  ELSE [err |-> "json: syntax error", v |-> ChanVal]

\* The payloads a successful Set can store.
Payloads == {Marshal(v).b : v \in {w \in Values : Marshal(w).err = NoErr}}

\* ------------------------------------------------------- map[string]*RawMessage

\* A Go map value: nil, or a table from its present keys to payloads.
MkMap(f) == [nil |-> FALSE, kv |-> f]
NilMap == [nil |-> TRUE, kv |-> [k \in {} |-> <<>>]]
EmptyMap == MkMap([k \in {} |-> <<>>])

MapKeys(m) == DOMAIN m.kv
MapHas(m, k) == k \in MapKeys(m)
MapGet(m, k) == m.kv[k]
MapLen(m) == Cardinality(MapKeys(m))
\* A store that keeps the first payload of a key: only absent keys are set.
MapPut_KeepFirst(m, k, b) ==
  [nil |-> FALSE, kv |-> [x \in (DOMAIN m.kv) \cup {k} |-> IF x \in DOMAIN m.kv THEN m.kv[x] ELSE b]]
\* m[key] = b   (on a non-nil map)
MapPut(m, k, b) == MkMap([x \in MapKeys(m) \cup {k} |-> IF x = k THEN b ELSE m.kv[x]])
\* A delete that removes nothing.
MapDelete_Nothing(m, k) == m
\* delete(m, key): a no-op on a nil map and on an absent key
MapDelete(m, k) == [m EXCEPT !.kv = [x \in MapKeys(m) \ {k} |-> m.kv[x]]]
\* results := make(map); for k, v := range m { results[k] = v }
MapCopy(m) == MkMap([x \in MapKeys(m) |-> m.kv[x]])

\* Keys in the order encoding/json writes them (sorted).
KeyOrder == <<"a", "b">>

\* A nil *json.RawMessage, which no payload of a Set is.
NilPtr == <<>>

\* What the encoder writes for a map value: null for a nil pointer, else the
\* RawMessage's bytes compacted, with HTML characters escaped.
Compact(b) == [i \in 1..Len(b) |-> EscapeHTML(b[i])]
Nested(b) == IF b = NilPtr THEN <<"null">> ELSE Compact(b)

RECURSIVE EncodeFrom(_, _, _)
EncodeFrom(m, i, first) ==
  IF i > Len(KeyOrder) THEN <<>>
  ELSE IF KeyOrder[i] \in MapKeys(m)
    THEN (IF first THEN <<>> ELSE <<",">>)
         \o <<"\"", KeyOrder[i], "\"", ":">> \o Nested(MapGet(m, KeyOrder[i]))
         \o EncodeFrom(m, i + 1, FALSE)
  ELSE EncodeFrom(m, i + 1, first)

\* json.NewEncoder(w).Encode(snapshot.data): one object, values nested
\* verbatim, and the newline the Encoder appends.
Encode(m) == <<"{">> \o EncodeFrom(m, 1, TRUE) \o <<"}", "\n">>


\* ------------------------------------------------------------- file system

\* File names are token sequences, so that strings.HasSuffix(name, ".gz")
\* and the temp name's fmt.Sprintf are computed, not assumed.
DbPlain == <<"db">>
DbGz == <<"db", ".gz">>
DestNames == {DbPlain, DbGz}
\* The file StartAutoSave is given.
AutoNames == {DbPlain}

\* strings.HasSuffix(filename, ".gz")
HasGzSuffix(name) == Len(name) > 0 /\ name[Len(name)] = ".gz"

\* fmt.Sprintf("%s.tmp-%d", filename, time.Now().Unix()), plus ".gz"
TmpName(filename, unix) ==
  filename \o <<".tmp-", Digit(unix)>>
  \o (IF HasGzSuffix(filename) THEN <<".gz">> ELSE <<>>)

NoFd == [ino |-> 0, off |-> 0]
NoFile == [k \in {} |-> 0]

\* gzip framing: the 10-byte header, the deflate stream, the CRC/size trailer.
GzHeader == <<"GZ">>
GzTrailer == <<"CRC">>
Gzip(b) == GzHeader \o b \o GzTrailer

\* The bytes a complete save of map m leaves in a file of that name.
FileBytes(name, m) == IF HasGzSuffix(name) THEN Gzip(Encode(m)) ELSE Encode(m)

\* pwrite of b at offset off into content c (the file grows as needed).
WriteAt(c, off, b) ==
  LET n == IF off + Len(b) > Len(c) THEN off + Len(b) ELSE Len(c)
  IN [i \in 1..n |-> IF i > off /\ i <= off + Len(b) THEN b[i - off]
                     ELSE IF i <= Len(c) THEN c[i] ELSE " "]

\* The first and the second half of b: the two write steps of a plain file.
Half1(b) == SubSeq(b, 1, (Len(b) + 1) \div 2)
Half2(b) == SubSeq(b, (Len(b) + 1) \div 2 + 1, Len(b))

\* The write steps of enc.Encode(data) on w, then of the deferred w.Close():
\* rep tells whether save() returns that step's error. A plain file gets the
\* bytes from Encode; a gzip.Writer writes its header inside Encode and the
\* deflate stream and trailer inside the deferred Close, whose error is dropped.
WriteSteps(name, m) ==
  IF HasGzSuffix(name)
    THEN << [b |-> GzHeader, rep |-> TRUE],
            [b |-> Encode(m), rep |-> FALSE],
            [b |-> GzTrailer, rep |-> FALSE] >>
  ELSE << [b |-> Half1(Encode(m)), rep |-> TRUE],
          [b |-> Half2(Encode(m)), rep |-> TRUE] >>


IsPrefix(a, b) == Len(a) <= Len(b) /\ SubSeq(b, 1, Len(a)) = a

\* Every map over Keys with payloads a Set can store.
AllMaps == {MkMap(f) : f \in UNION {[ks -> Payloads] : ks \in SUBSET Keys}}

\* The values a file can hold for a key: what a Set stores, null, a string
\* written by hand with its < not escaped, and that string as a save writes
\* it back.
RawLt == <<"\"", "<", "\"">>
FilePayloads == Payloads \cup {<<"null">>, RawLt, Compact(RawLt)}
FileMaps == {MkMap(f) : f \in UNION {[ks -> FilePayloads] : ks \in SUBSET Keys}}

\* The text of a JSON object with the values of m as they stand.
RECURSIVE TextFrom(_, _, _)
TextFrom(m, i, first) ==
  IF i > Len(KeyOrder) THEN <<>>
  ELSE IF KeyOrder[i] \in MapKeys(m)
    THEN (IF first THEN <<>> ELSE <<",">>)
         \o <<"\"", KeyOrder[i], "\"", ":">> \o MapGet(m, KeyOrder[i])
         \o TextFrom(m, i + 1, FALSE)
  ELSE TextFrom(m, i + 1, first)
ObjectText(m) == <<"{">> \o TextFrom(m, 1, TRUE) \o <<"}">>

\* Decoding into map[string]*json.RawMessage: a value's bytes are kept as
\* they are in the file, except that null leaves a nil pointer.
Loaded(m) == MkMap([k \in MapKeys(m) |-> IF MapGet(m, k) = <<"null">> THEN NilPtr ELSE MapGet(m, k)])

\* dec.Decode(&data): the decoder reads the first JSON value of the stream.
Decode(b) ==
  IF \E m \in FileMaps : IsPrefix(ObjectText(m), b)
    THEN [err |-> NoErr, data |-> Loaded(CHOOSE m \in FileMaps : IsPrefix(ObjectText(m), b))]
  ELSE [err |-> "json: syntax error", data |-> NilMap]

\* gzip.NewReader(f) and the reads through it. NewReader fails when the
\* header is missing. The reader then streams: it hands over the data that
\* precedes the trailer, and reports a missing trailer (tail) only after them.
Gunzip(c) ==
  IF ~IsPrefix(GzHeader, c)
    THEN [err |-> "gzip: invalid header", b |-> <<>>, tail |-> NoErr]
  ELSE LET rest == SubSeq(c, Len(GzHeader) + 1, Len(c))
           ends == {i \in 1..Len(rest) : rest[i] = GzTrailer[1]}
           n == IF ends = {} THEN Len(rest)
                ELSE (CHOOSE i \in ends : \A j \in ends : i <= j) - 1
       IN [err |-> NoErr, b |-> SubSeq(rest, 1, n),
           tail |-> IF ends = {} THEN "unexpected EOF" ELSE NoErr]

\* Open(filename) on a directory d and inode table n: the loaded store's data.
\* The decoder returns at the end of the first value, so an error the reader
\* holds for later shows only when the data end before that value does.
Open(d, n, filename) ==
  IF filename \notin DOMAIN d THEN [err |-> ErrNotExist, data |-> NilMap]
  ELSE LET raw == n[d[filename]]
           un == IF HasGzSuffix(filename) THEN Gunzip(raw)
                 ELSE [err |-> NoErr, b |-> raw, tail |-> NoErr]
           dec == Decode(un.b)
       IN IF un.err # NoErr THEN [err |-> un.err, data |-> NilMap]
          ELSE IF dec.err # NoErr /\ un.tail # NoErr THEN [err |-> un.tail, data |-> NilMap]
          ELSE dec

\* ------------------------------------------------------------------- state

VARIABLES
  data, diffCount, setCount, savedCount,  \* JSONStore fields
  cur, save, stop, done,  \* the channels the fields save/stop/done hold
  rw,                     \* the embedded sync.RWMutex
  dir, ino, now, faults,  \* the file system, the clock, failed I/O so far
  caller, job, ctl,       \* goroutines
  panicked,
  hist                    \* history: late mutations, names written in
                          \* place, the payload last given to each key

storeVars == <<data, diffCount, setCount, savedCount>>
chanVars == <<cur, save, stop, done>>
fsVars == <<dir, ino>>
vars == <<data, diffCount, setCount, savedCount, cur, save, stop, done, rw,
          dir, ino, now, faults, caller, job, ctl, panicked, hist>>

\* One set of channels per StartAutoSave call; cur = 0 is the nil channels.
Gens == 1..Cardinality(Tasks)
TaskOf(g) == <<"task", g>>

\* A *JSONStore that snapshot() or GetAll() returned, as the goroutine holding
\* it sees it: the map it made, its setCount, and whether its data field
\* points to the live store's map instead of a map of its own.
NoSnap == [data |-> NilMap, setCount |-> -1, shared |-> FALSE]

\* The matcher passed to GetAll: nil, or a function true on the keys in yes.
NilMatcher == [nil |-> TRUE, yes |-> {}]
Matcher(ks) == [nil |-> FALSE, yes |-> ks]
Matchers == {NilMatcher} \cup {Matcher(ks) : ks \in SUBSET Keys}

\* What a call returned: the error, the value Get decoded, Size's number,
\* the slice of Keys, the store of GetAll.
Ret(e) == [err |-> e, val |-> ChanVal, n |-> 0, keys |-> <<>>, store |-> NoSnap]

IdleCaller == [pc |-> "idle", op |-> "", key |-> "", buf |-> <<>>, ok |-> FALSE,
               match |-> NilMatcher, ret |-> Ret(NoErr)]
IdleJob(start) ==
  [pc |-> start, op |-> "", name |-> <<>>, dest |-> <<>>, take |-> FALSE,
   snap |-> NoSnap, fd |-> NoFd, todo |-> <<>>, err |-> NoErr,
   selStop |-> 0, selSave |-> 0, loop |-> TRUE, d |-> 0,
   hit |-> FALSE, old |-> [exists |-> FALSE, c |-> <<>>]]
IdleCtl == [pc |-> "idle", stops |-> 0, returned |-> 0, wait |-> 0]

\* The stores a run starts from: new(JSONStore), or Open of a file that holds
\* a saved map.
InitMaps == {MkMap([k \in {"a"} |-> <<"1">>])}

\* The fields of a JSONStore literal that names none of them.
InitCounts == diffCount = 0 /\ setCount = 0 /\ savedCount = 0

\* No channels, a free lock, idle goroutines, the clock at 0.
InitRest ==
  /\ cur = 0
  /\ save = [g \in Gens |-> 0]
  /\ stop = [g \in Gens |-> FALSE]
  /\ done = [g \in Gens |-> FALSE]
  /\ rw = [w |-> NoProc, r |-> {}]
  /\ now = 0 /\ faults = 0
  /\ caller = [p \in Callers |-> IdleCaller]
  /\ job = [p \in Tasks \cup Savers |-> IdleJob(IF p \in Tasks THEN "none" ELSE "idle")]
  /\ ctl = IdleCtl
  /\ panicked = FALSE
  /\ hist = [lateMut |-> FALSE, inplace |-> {}, last |-> data.kv]

InitCommon == InitCounts /\ InitRest


InitNew == data = NilMap /\ dir = NoFile /\ ino = NoFile

InitOpened ==
  \E m \in InitMaps :
    /\ dir = [x \in {DbGz} |-> 1]
    /\ ino = [i \in {1} |-> FileBytes(DbGz, m)]
    /\ data = Open(dir, ino, DbGz).data

Init == (InitNew \/ InitOpened) /\ InitCommon


\* ----------------------------------------------------------- sync.RWMutex

\* Lock() returns once there is no writer and no reader.
CanLock == rw.w = NoProc /\ rw.r = {}
\* Goroutines blocked in Lock(): a pending writer keeps new readers out.
WritersWaiting ==
  {p \in Callers : caller[p].pc = "lock" /\ caller[p].op \in {"Set", "Delete"}}
  \cup {t \in Tasks : job[t].pc = "updLock"}
\* An RLock that a writer does not keep out.
CanRLock_Always == TRUE
\* RLock() returns once there is no writer, holding or pending.
CanRLock == rw.w = NoProc /\ WritersWaiting = {}
Locked(p) == [w |-> p, r |-> {}]
\* An RLock that does not count its reader, so that writers get in.
RLocked_NoReader(p) == rw
RLocked(p) == [rw EXCEPT !.r = @ \cup {p}]
Unlocked == [w |-> NoProc, r |-> {}]
RUnlocked(p) == [rw EXCEPT !.r = @ \ {p}]
HoldsLock(p) == rw.w = p \/ p \in rw.r

\* ------------------------------------------------------------ Set, Get, ...

SetsInFlight == Cardinality({q \in Callers : caller[q].op = "Set" /\ caller[q].pc \in {"lock", "body"}})

\* A Set that counts itself twice.
NextSetCount_Twice(c) == c + 2

\* s.setCount++
NextSetCount(c) == c + 1

\* The threshold test of Set, on the counters after the increment.
ShouldSignal(dc, sc, sv) == dc # 0 /\ sc - sv >= dc

\* A plain send s.save <- struct{}{} instead: it blocks while a signal is pending.
TrySend_Blocking(buffered) == [ok |-> buffered < 1, buf |-> buffered + 1]

\* A send on a channel without a bound: every signal is queued.
TrySend_Queue(buffered) == [ok |-> TRUE, buf |-> buffered + 1]

\* select { case s.save <- struct{}{}: default: } on a channel of capacity 1:
\* the send never blocks (ok), and is dropped when a signal is pending.
TrySend(buffered) ==
  [ok |-> TRUE, buf |-> IF buffered < 1 THEN buffered + 1 ELSE buffered]

\* Set: json.Marshal before the lock; an encode error returns at once.
SetCall(p, k, v) ==
  /\ ~panicked
  /\ caller[p].pc = "idle"
  /\ setCount + SetsInFlight < MaxSets
  /\ LET m == Marshal(v) IN
       caller' = [caller EXCEPT ![p] =
         IF m.err # NoErr
           THEN [@ EXCEPT !.pc = "done", !.op = "Set", !.key = k, !.ret = Ret(m.err)]
         ELSE [@ EXCEPT !.pc = "lock", !.op = "Set", !.key = k, !.buf = m.b]]
  /\ UNCHANGED <<storeVars, chanVars, rw, fsVars, now, faults, job, ctl, panicked, hist>>

\* Get, Delete, Keys, Size: the call, up to its lock operation.
ReadCall(p, o, k) ==
  /\ ~panicked
  /\ caller[p].pc = "idle"
  /\ caller' = [caller EXCEPT ![p] = [@ EXCEPT !.pc = "lock", !.op = o, !.key = k]]
  /\ UNCHANGED <<storeVars, chanVars, rw, fsVars, now, faults, job, ctl, panicked, hist>>

\* s.Lock() of Set and Delete; s.RLock() of Get, Keys and Size.
CallerLock(p) ==
  /\ ~panicked
  /\ caller[p].pc = "lock"
  /\ IF caller[p].op \in {"Set", "Delete"}
       THEN CanLock /\ rw' = Locked(p)
     ELSE CanRLock /\ rw' = RLocked(p)
  /\ caller' = [caller EXCEPT ![p].pc = "body"]
  /\ UNCHANGED <<storeVars, chanVars, fsVars, now, faults, job, ctl, panicked, hist>>

\* Set's critical section on the store: the map is made on first use, the
\* payload replaces the key's value, setCount grows, and the dirty signal is
\* sent without blocking once the threshold is reached.
SetEffect(k, b) ==
  /\ data' = MapPut(IF data.nil THEN EmptyMap ELSE data, k, b)
  /\ setCount' = NextSetCount(setCount)
  /\ IF ShouldSignal(diffCount, setCount', savedCount)
       THEN TrySend(save[cur]).ok /\ save' = [save EXCEPT ![cur] = TrySend(@).buf]
     ELSE save' = save
  /\ hist' = [hist EXCEPT !.lateMut = @ \/ ctl.stops > 0,
                          !.last = [x \in DOMAIN @ \cup {k} |-> IF x = k THEN b ELSE @[x]]]
  /\ UNCHANGED <<diffCount, savedCount, cur, stop, done>>

\* Delete's critical section: delete(s.data, key).
DeleteEffect(k) ==
  /\ data' = MapDelete(data, k)
  /\ hist' = [hist EXCEPT !.lateMut = @ \/ ctl.stops > 0,
                          !.last = [x \in DOMAIN @ \ {k} |-> @[x]]]
  /\ UNCHANGED <<diffCount, setCount, savedCount, chanVars>>

\* Set's critical section and the deferred Unlock.
SetBody(p) ==
  /\ ~panicked
  /\ caller[p].pc = "body" /\ caller[p].op = "Set"
  /\ SetEffect(caller[p].key, caller[p].buf)
  /\ rw' = Unlocked
  /\ caller' = [caller EXCEPT ![p] = [@ EXCEPT !.pc = "done", !.ret = Ret(NoErr)]]
  /\ UNCHANGED <<fsVars, now, faults, job, ctl, panicked>>

\* A Get that makes the map when the store has none, as Set does.
GetBody_MakesMap(p) ==
  /\ ~panicked
  /\ caller[p].pc = "body" /\ caller[p].op = "Get"
  /\ rw' = RUnlocked(p)
  /\ data' = IF data.nil THEN EmptyMap ELSE data
  /\ caller' = [caller EXCEPT ![p] = [@ EXCEPT !.pc = "unlocked",
       !.ok = MapHas(data, caller[p].key),
       !.buf = IF MapHas(data, caller[p].key) THEN MapGet(data, caller[p].key) ELSE NilPtr]]
  /\ UNCHANGED <<diffCount, setCount, savedCount, chanVars, fsVars, now, faults, job, ctl, panicked, hist>>

\* Get under the lock: b, ok := s.data[key] between RLock and RUnlock. The
\* caller keeps the pointer b and the flag ok; the lock is free from here on.
GetBody(p) ==
  /\ ~panicked
  /\ caller[p].pc = "body" /\ caller[p].op = "Get"
  /\ rw' = RUnlocked(p)
  /\ caller' = [caller EXCEPT ![p] = [@ EXCEPT !.pc = "unlocked",
       !.ok = MapHas(data, caller[p].key),
       !.buf = IF MapHas(data, caller[p].key) THEN MapGet(data, caller[p].key) ELSE NilPtr]]
  /\ UNCHANGED <<storeVars, chanVars, fsVars, now, faults, job, ctl, panicked, hist>>

\* Get after RUnlock: NoSuchKeyError when !ok, else json.Unmarshal(*b, v),
\* where a nil b is a nil pointer dereference.
GetDecode(p) ==
  /\ ~panicked
  /\ caller[p].pc = "unlocked" /\ caller[p].op = "Get"
  /\ IF caller[p].ok /\ caller[p].buf = NilPtr
       THEN panicked' = TRUE /\ UNCHANGED caller
     ELSE /\ UNCHANGED panicked
          /\ caller' = [caller EXCEPT ![p] = [@ EXCEPT !.pc = "done", !.ret =
               IF ~caller[p].ok THEN Ret(NoSuchKeyError(caller[p].key))
               ELSE LET u == Unmarshal(caller[p].buf)
                    IN [Ret(u.err) EXCEPT !.val = u.v]]]
  /\ UNCHANGED <<storeVars, chanVars, rw, fsVars, now, faults, job, ctl, hist>>

\* Delete: delete(s.data, key) under the write lock.
DeleteBody(p) ==
  /\ ~panicked
  /\ caller[p].pc = "body" /\ caller[p].op = "Delete"
  /\ DeleteEffect(caller[p].key)
  /\ rw' = Unlocked
  /\ caller' = [caller EXCEPT ![p] = [@ EXCEPT !.pc = "done", !.ret = Ret(NoErr)]]
  /\ UNCHANGED <<fsVars, now, faults, job, ctl, panicked>>

\* The slices a range over the keys in ks can fill: every key once, in any
\* order (the iteration order of a Go map is not specified).
RangeOrders(ks) ==
  {o \in [1..Cardinality(ks) -> ks] : \A i, j \in DOMAIN o : i # j => o[i] # o[j]}

\* Keys: a slice of len(s.data) filled by a range over the map, under RLock.
KeysBody(p) ==
  /\ ~panicked
  /\ caller[p].pc = "body" /\ caller[p].op = "Keys"
  /\ rw' = RUnlocked(p)
  /\ \E o \in RangeOrders(MapKeys(data)) :
       caller' = [caller EXCEPT ![p] = [@ EXCEPT !.pc = "done", !.ret =
         [Ret(NoErr) EXCEPT !.n = MapLen(data), !.keys = o]]]
  /\ UNCHANGED <<storeVars, chanVars, fsVars, now, faults, job, ctl, panicked, hist>>

\* Size: len(s.data) under RLock.
SizeBody(p) ==
  /\ ~panicked
  /\ caller[p].pc = "body" /\ caller[p].op = "Size"
  /\ rw' = RUnlocked(p)
  /\ caller' = [caller EXCEPT ![p] = [@ EXCEPT !.pc = "done", !.ret =
       [Ret(NoErr) EXCEPT !.n = MapLen(data)]]]
  /\ UNCHANGED <<storeVars, chanVars, fsVars, now, faults, job, ctl, panicked, hist>>

\* GetAll: the call with its matcher, up to s.RLock().
GetAllCall(p, f) ==
  /\ ~panicked
  /\ caller[p].pc = "idle"
  /\ caller' = [caller EXCEPT ![p] = [@ EXCEPT !.pc = "lock", !.op = "GetAll", !.match = f]]
  /\ UNCHANGED <<storeVars, chanVars, rw, fsVars, now, faults, job, ctl, panicked, hist>>

\* A nil matcher that matches no key.
Matches_NilNone(f, k) == ~f.nil /\ k \in f.yes

\* matcher == nil || matcher(k)
Matches(f, k) == f.nil \/ k \in f.yes

\* The store GetAll builds: a map made for it, filled with the matching keys
\* and their payloads, and the source's setCount.
GetAllOf(m, sc, f) ==
  [data |-> MkMap([k \in {x \in MapKeys(m) : Matches(f, x)} |-> MapGet(m, k)]),
   setCount |-> sc, shared |-> FALSE]

\* GetAll's body under RLock and the deferred RUnlock.
GetAllBody(p) ==
  /\ ~panicked
  /\ caller[p].pc = "body" /\ caller[p].op = "GetAll"
  /\ rw' = RUnlocked(p)
  /\ caller' = [caller EXCEPT ![p] = [@ EXCEPT !.pc = "done", !.ret =
       [Ret(NoErr) EXCEPT !.store = GetAllOf(data, setCount, caller[p].match)]]]
  /\ UNCHANGED <<storeVars, chanVars, fsVars, now, faults, job, ctl, panicked, hist>>

\* The map a returned store reads and writes through its data field.
Held(st) == IF st.shared THEN data ELSE st.data

\* The caller calls Set on the store GetAll returned to it. That store has
\* diffCount 0 and no channels, so the call stores the payload and counts.
SubSet(p, k, v) ==
  /\ ~panicked
  /\ caller[p].pc = "done" /\ caller[p].op = "GetAll"
  /\ caller[p].ret.store.setCount < MaxSets
  /\ Marshal(v).err = NoErr
  /\ LET st == caller[p].ret.store
         m == MapPut(Held(st), k, Marshal(v).b)
     IN /\ caller' = [caller EXCEPT ![p].ret.store =
               [st EXCEPT !.data = IF st.shared THEN @ ELSE m,
                          !.setCount = NextSetCount(@)]]
        /\ data' = IF st.shared THEN m ELSE data
  /\ UNCHANGED <<diffCount, setCount, savedCount, chanVars, rw, fsVars, now, faults,
                 job, ctl, panicked, hist>>

\* The caller calls Delete on the store GetAll returned to it.
SubDelete(p, k) ==
  /\ ~panicked
  /\ caller[p].pc = "done" /\ caller[p].op = "GetAll"
  /\ LET st == caller[p].ret.store
         m == MapDelete(Held(st), k)
     IN /\ caller' = [caller EXCEPT ![p].ret.store.data = IF st.shared THEN @ ELSE m]
        /\ data' = IF st.shared THEN m ELSE data
  /\ UNCHANGED <<diffCount, setCount, savedCount, chanVars, rw, fsVars, now, faults,
                 job, ctl, panicked, hist>>

\* The call has returned to the caller, which is free to make the next one.
Return(p) ==
  /\ ~panicked
  /\ caller[p].pc = "done"
  /\ caller' = [caller EXCEPT ![p] = IdleCaller]
  /\ UNCHANGED <<storeVars, chanVars, rw, fsVars, now, faults, job, ctl, panicked, hist>>


\* A whole successful Set by some caller as one step: Lock, the critical
\* section, Unlock. The lock makes the critical section atomic, so any number
\* of callers running Set concurrently take such steps in the order in which
\* they get the lock.
Set(k, v) ==
  /\ ~panicked
  /\ setCount < MaxSets
  /\ Marshal(v).err = NoErr
  /\ CanLock
  /\ SetEffect(k, Marshal(v).b)
  /\ UNCHANGED <<rw, fsVars, now, faults, caller, job, ctl, panicked>>

\* A whole Delete by some caller as one step.
Delete(k) ==
  /\ ~panicked
  /\ CanLock
  /\ DeleteEffect(k)
  /\ UNCHANGED <<rw, fsVars, now, faults, caller, job, ctl, panicked>>

\* ------------------------------------------------ StartAutoSave, StopAutoSave

Intervals == {0, 1}
Thresholds == {0, 1, 2}

\* s.Lock() of StartAutoSave.
StartLock ==
  /\ ~panicked
  /\ ctl.pc = "idle"
  /\ cur < Cardinality(Tasks)
  /\ CanLock
  /\ rw' = Locked(Ctl)
  /\ ctl' = [ctl EXCEPT !.pc = "start"]
  /\ UNCHANGED <<storeVars, chanVars, fsVars, now, faults, caller, job, panicked, hist>>

\* The fields set under the lock (fresh channels), the Unlock, and the go
\* statement: nothing tells whether an autosave goroutine is already running.
StartAutoSave(filename, d, count) ==
  /\ ~panicked
  /\ ctl.pc = "start"
  /\ diffCount' = count
  /\ cur' = cur + 1
  /\ save' = [save EXCEPT ![cur + 1] = 0]
  /\ stop' = [stop EXCEPT ![cur + 1] = FALSE]
  /\ done' = [done EXCEPT ![cur + 1] = FALSE]
  /\ rw' = Unlocked
  /\ job' = [job EXCEPT ![TaskOf(cur + 1)] =
       [IdleJob("loop") EXCEPT !.op = "auto", !.name = filename, !.d = d]]
  /\ ctl' = [ctl EXCEPT !.pc = "idle"]
  /\ UNCHANGED <<data, setCount, savedCount, fsVars, now, faults, caller, panicked, hist>>

\* A StopAutoSave that returns at once, having done nothing, when the stop
\* channel is nil or closed.
StopClose_NoOp ==
  /\ ~panicked
  /\ ctl.pc = "idle"
  /\ ctl.stops < MaxStops
  /\ IF cur = 0 \/ stop[cur]
       THEN ctl' = [ctl EXCEPT !.stops = @ + 1, !.returned = @ + 1] /\ UNCHANGED stop
     ELSE /\ stop' = [stop EXCEPT ![cur] = TRUE]
          /\ ctl' = [ctl EXCEPT !.pc = "wait", !.stops = @ + 1, !.wait = cur]
  /\ UNCHANGED <<storeVars, cur, save, done, rw, fsVars, now, faults, caller, job, hist, panicked>>

\* close(s.stop): closing a nil or a closed channel panics.
StopClose ==
  /\ ~panicked
  /\ ctl.pc = "idle"
  /\ ctl.stops < MaxStops
  /\ IF cur = 0 \/ stop[cur]
       THEN panicked' = TRUE /\ UNCHANGED <<stop, ctl>>
     ELSE /\ stop' = [stop EXCEPT ![cur] = TRUE]
          /\ ctl' = [ctl EXCEPT !.pc = "wait", !.stops = @ + 1, !.wait = cur]
          /\ UNCHANGED panicked
  /\ UNCHANGED <<storeVars, cur, save, done, rw, fsVars, now, faults, caller, job, hist>>

\* StopAutoSave without the receive from done: it returns at once.
StopReturn_NoWait ==
  /\ ~panicked
  /\ ctl.pc = "wait"
  /\ ctl' = [ctl EXCEPT !.pc = "idle", !.returned = @ + 1]
  /\ UNCHANGED <<storeVars, chanVars, rw, fsVars, now, faults, caller, job, panicked, hist>>

\* <-s.done: StopAutoSave returns once done is closed.
StopReturn ==
  /\ ~panicked
  /\ ctl.pc = "wait"
  /\ done[ctl.wait]
  /\ ctl' = [ctl EXCEPT !.pc = "idle", !.returned = @ + 1]
  /\ UNCHANGED <<storeVars, chanVars, rw, fsVars, now, faults, caller, job, panicked, hist>>

\* ------------------------------------------------------------------ snapshot

\* snapshot() that returns the live map itself: results := s.data.
SnapshotOf_Shared(m, sc) == [data |-> m, setCount |-> sc, shared |-> TRUE]

\* The store snapshot() and GetAll() return: a fresh map and the setCount.
SnapshotOf(m, sc) == [data |-> MapCopy(m), setCount |-> sc, shared |-> FALSE]

\* snapshot() without the skip: it copies whatever the counters are.
SkipSnapshot_Never(skipIfSaved, sc, sv) == FALSE

\* if skipIfSaved && s.setCount == s.savedCount { return nil }
SkipSnapshot(skipIfSaved, sc, sv) == skipIfSaved /\ sc = sv

\* s.RLock() of snapshot.
SnapRLock(p) ==
  /\ ~panicked
  /\ job[p].pc = "snapRLock"
  /\ CanRLock
  /\ rw' = RLocked(p)
  /\ job' = [job EXCEPT ![p].pc = "snapCopy"]
  /\ UNCHANGED <<storeVars, chanVars, fsVars, now, faults, caller, ctl, panicked, hist>>

\* snapshot() without its RUnlock: the read lock stays held by the goroutine.
AfterSnapshot_KeepLock(p) == rw

\* The lock snapshot() leaves behind: its deferred RUnlock.
AfterSnapshot(p) == RUnlocked(p)

\* The body of snapshot and its deferred RUnlock. The autosave goroutine
\* calls snapshot(true) and goes on to save(); saveToWriter calls
\* snapshot(false) with the file already created.
SnapCopy(p) ==
  /\ ~panicked
  /\ job[p].pc = "snapCopy"
  /\ rw' = AfterSnapshot(p)
  /\ IF SkipSnapshot(job[p].op = "auto", setCount, savedCount)
       THEN job' = [job EXCEPT ![p] = [@ EXCEPT !.pc = "loop", !.snap = NoSnap]]
     ELSE LET sn == SnapshotOf(data, setCount) IN
       job' = [job EXCEPT ![p] =
         IF job[p].op = "auto"
           THEN [@ EXCEPT !.pc = "create", !.snap = sn]
         ELSE [@ EXCEPT !.pc = "write", !.snap = sn,
                        !.todo = WriteSteps(job[p].name, Held(sn))]]
  /\ UNCHANGED <<storeVars, chanVars, fsVars, now, faults, caller, ctl, panicked, hist>>


\* ---------------------------------------------------- save, saveAndRename

\* Inodes in use: named in the directory or held open by a goroutine.
Refs(d, j) == ({d[x] : x \in DOMAIN d} \cup {j[p].fd.ino : p \in DOMAIN j}) \ {0}
\* Unreferenced inodes are freed.
Gc(n, d, j) == [i \in (DOMAIN n) \cap Refs(d, j) |-> n[i]]
InoIds == 1..(2 * Cardinality(Tasks \cup Savers) + Cardinality(DestNames))
FreshIno == CHOOSE i \in InoIds : i \notin DOMAIN ino /\ \A x \in 1..(i - 1) : x \in DOMAIN ino

\* What a reader that opens the name and reads it to the end gets.
FileState(d, n, name) ==
  IF name \in DOMAIN d THEN [exists |-> TRUE, c |-> n[d[name]]]
  ELSE [exists |-> FALSE, c |-> <<>>]

\* Save(ks, filename): save(ks, filename, true).
SaveCall(p, filename) ==
  /\ ~panicked
  /\ job[p].pc = "idle"
  /\ job' = [job EXCEPT ![p] =
       [@ EXCEPT !.pc = "create", !.op = "Save", !.name = filename, !.take = TRUE]]
  /\ UNCHANGED <<storeVars, chanVars, rw, fsVars, now, faults, caller, ctl, panicked, hist>>

\* SaveAndRename(ks, filename): the temp name from the clock, then
\* save(ks, tmpfile, true).
SaveAndRenameCall(p, filename) ==
  /\ ~panicked
  /\ job[p].pc = "idle"
  /\ job' = [job EXCEPT ![p] =
       [@ EXCEPT !.pc = "create", !.op = "SaveAndRename", !.dest = filename,
                 !.name = TmpName(filename, now), !.take = TRUE,
                 !.old = FileState(dir, ino, filename)]]
  /\ UNCHANGED <<storeVars, chanVars, rw, fsVars, now, faults, caller, ctl, panicked, hist>>

\* An autosave goroutine that leaves its loop when save() returns an error.
AfterSave_ExitOnError(j, e) ==
  CASE j.op = "auto" -> (IF e # NoErr THEN [j EXCEPT !.pc = "loop", !.loop = FALSE, !.err = e]
                         ELSE [j EXCEPT !.pc = "updLock", !.err = e])
    [] j.op = "Save" -> [j EXCEPT !.pc = "done", !.err = e]
    [] OTHER -> [j EXCEPT !.pc = IF e # NoErr THEN "remove" ELSE "rename", !.err = e]

\* Where a goroutine goes when save() returns e: the autosave goroutine drops
\* the error, Save returns it, saveAndRename returns it (and its deferred
\* os.Remove runs) or goes on to os.Rename.
AfterSave(j, e) ==
  CASE j.op = "auto" -> [j EXCEPT !.pc = "updLock", !.err = e]
    [] j.op = "Save" -> [j EXCEPT !.pc = "done", !.err = e]
    [] OTHER -> [j EXCEPT !.pc = IF e # NoErr THEN "remove" ELSE "rename", !.err = e]

\* os.OpenFile with O_CREATE but without O_TRUNC: an existing file keeps its
\* content and is overwritten from offset 0.
Create_NoTrunc(p) ==
  /\ ~panicked
  /\ job[p].pc = "create"
  /\ LET nm == job[p].name
         i == IF nm \in DOMAIN dir THEN dir[nm] ELSE FreshIno
     IN /\ dir' = [x \in DOMAIN dir \cup {nm} |-> IF x = nm THEN i ELSE dir[x]]
        /\ ino' = [x \in DOMAIN ino \cup {i} |-> IF x \in DOMAIN ino THEN ino[x] ELSE <<>>]
        /\ job' = [job EXCEPT ![p] =
             IF job[p].take
               THEN [@ EXCEPT !.pc = "snapRLock", !.fd = [ino |-> i, off |-> 0]]
             ELSE [@ EXCEPT !.pc = "write", !.fd = [ino |-> i, off |-> 0],
                            !.todo = WriteSteps(nm, Held(job[p].snap))]]
        /\ hist' = [hist EXCEPT !.inplace =
             IF job[p].op = "SaveAndRename" THEN @ ELSE @ \cup {nm}]
  /\ UNCHANGED <<storeVars, chanVars, rw, now, faults, caller, ctl, panicked>>

\* os.Create(filename): O_CREATE|O_TRUNC. An existing file keeps its inode
\* and is emptied; the returned descriptor writes from offset 0.
Create(p) ==
  /\ ~panicked
  /\ job[p].pc = "create"
  /\ LET nm == job[p].name
         i == IF nm \in DOMAIN dir THEN dir[nm] ELSE FreshIno
     IN /\ dir' = [x \in DOMAIN dir \cup {nm} |-> IF x = nm THEN i ELSE dir[x]]
        /\ ino' = [x \in DOMAIN ino \cup {i} |-> IF x = i THEN <<>> ELSE ino[x]]
        /\ job' = [job EXCEPT ![p] =
             IF job[p].take
               THEN [@ EXCEPT !.pc = "snapRLock", !.fd = [ino |-> i, off |-> 0]]
             ELSE [@ EXCEPT !.pc = "write", !.fd = [ino |-> i, off |-> 0],
                            !.todo = WriteSteps(nm, Held(job[p].snap))]]
        /\ hist' = [hist EXCEPT !.inplace =
             IF job[p].op = "SaveAndRename" THEN @ ELSE @ \cup {nm}]
  /\ UNCHANGED <<storeVars, chanVars, rw, now, faults, caller, ctl, panicked>>

\* os.Create fails: save returns the error, nothing is written.
CreateFail(p) ==
  /\ ~panicked
  /\ job[p].pc = "create"
  /\ faults < MaxFaults
  /\ faults' = faults + 1
  /\ job' = [job EXCEPT ![p] = AfterSave([@ EXCEPT !.hit = TRUE], ErrIO)]
  /\ UNCHANGED <<storeVars, chanVars, rw, fsVars, now, caller, ctl, panicked, hist>>

\* One write step on the open file. After the last one the deferred
\* f.Close() is next.
Write(p) ==
  /\ ~panicked
  /\ job[p].pc = "write"
  /\ job[p].todo # <<>>
  /\ LET f == job[p].fd
         b == Head(job[p].todo).b
     IN /\ ino' = [ino EXCEPT ![f.ino] = WriteAt(@, f.off, b)]
        /\ job' = [job EXCEPT ![p] =
             [@ EXCEPT !.fd = [ino |-> f.ino, off |-> f.off + Len(b)],
                       !.todo = Tail(@),
                       !.pc = IF Len(job[p].todo) = 1 THEN "close" ELSE "write"]]
  /\ UNCHANGED <<storeVars, chanVars, rw, dir, now, faults, caller, ctl, panicked, hist>>

\* The error save() returns when a write step fails: enc.Encode's error is
\* returned, the deferred w.Close()'s is not.
WriteError(step, e) == IF step.rep THEN ErrIO ELSE e

\* A write step fails (disk full, I/O error): no later step is made.
WriteFail(p) ==
  /\ ~panicked
  /\ job[p].pc = "write"
  /\ job[p].todo # <<>>
  /\ faults < MaxFaults
  /\ faults' = faults + 1
  /\ job' = [job EXCEPT ![p] =
       [@ EXCEPT !.todo = <<>>, !.pc = "close", !.hit = TRUE,
                 !.err = WriteError(Head(job[p].todo), job[p].err)]]
  /\ UNCHANGED <<storeVars, chanVars, rw, fsVars, now, caller, ctl, panicked, hist>>

\* A save that, when Save returns, marks the store clean up to its snapshot.
Close_MarksClean(p) ==
  /\ ~panicked
  /\ job[p].pc = "close"
  /\ job' = [job EXCEPT ![p] = AfterSave([@ EXCEPT !.fd = NoFd], job[p].err)]
  /\ ino' = Gc(ino, dir, job')
  /\ savedCount' = IF job[p].op = "Save" THEN job[p].snap.setCount ELSE savedCount
  /\ UNCHANGED <<data, diffCount, setCount, chanVars, rw, dir, now, faults, caller, ctl, panicked, hist>>

\* The deferred f.Close(), and save's return.
Close(p) ==
  /\ ~panicked
  /\ job[p].pc = "close"
  /\ job' = [job EXCEPT ![p] = AfterSave([@ EXCEPT !.fd = NoFd], job[p].err)]
  /\ ino' = Gc(ino, dir, job')
  /\ UNCHANGED <<storeVars, chanVars, rw, dir, now, faults, caller, ctl, panicked, hist>>

\* os.Rename(tmpfile, filename): one atomic step; it fails when the temp
\* name is gone.
Rename(p) ==
  /\ ~panicked
  /\ job[p].pc = "rename"
  /\ LET tmp == job[p].name
         dst == job[p].dest
     IN IF tmp \notin DOMAIN dir
          THEN /\ job' = [job EXCEPT ![p] = [@ EXCEPT !.pc = "remove", !.err = ErrNotExist]]
               /\ UNCHANGED <<dir, ino>>
        ELSE /\ dir' = [x \in (DOMAIN dir \cup {dst}) \ {tmp} |->
                          IF x = dst THEN dir[tmp] ELSE dir[x]]
             /\ job' = [job EXCEPT ![p].pc = "remove"]
             /\ ino' = Gc(ino, dir', job')
  /\ UNCHANGED <<storeVars, chanVars, rw, now, faults, caller, ctl, panicked, hist>>

\* os.Rename fails for a reason of the file system.
RenameFail(p) ==
  /\ ~panicked
  /\ job[p].pc = "rename"
  /\ faults < MaxFaults
  /\ faults' = faults + 1
  /\ job' = [job EXCEPT ![p] = [@ EXCEPT !.pc = "remove", !.err = ErrIO, !.hit = TRUE]]
  /\ UNCHANGED <<storeVars, chanVars, rw, fsVars, now, caller, ctl, panicked, hist>>

\* The deferred os.Remove(tmpfile), its error dropped, and the return.
Remove(p) ==
  /\ ~panicked
  /\ job[p].pc = "remove"
  /\ dir' = [x \in DOMAIN dir \ {job[p].name} |-> dir[x]]
  /\ job' = [job EXCEPT ![p].pc = "done"]
  /\ ino' = Gc(ino, dir', job')
  /\ UNCHANGED <<storeVars, chanVars, rw, now, faults, caller, ctl, panicked, hist>>

\* time.Now().Unix() moves on.
Tick ==
  /\ ~panicked
  /\ now < MaxTime
  /\ now' = now + 1
  /\ UNCHANGED <<storeVars, chanVars, rw, fsVars, faults, caller, job, ctl, panicked, hist>>


\* ------------------------------------------------- the autosave goroutine

\* The channels a read of s.stop, s.save or s.done without the lock can
\* yield. The goroutine reads these fields with no lock held while
\* StartAutoSave writes them under a lock the reader does not take (a data
\* race): while a StartAutoSave is between its Lock and its Unlock, each read
\* on its own yields the channel the field held before or the new one.
FieldReads == IF ctl.pc = "start" THEN {cur, cur + 1} ELSE {cur}

\* The top of `for loop`: with loop false the goroutine runs close(s.done)
\* and ends (closing a closed channel panics); otherwise it enters the
\* select, whose channel operands s.stop and s.save are read here, one after
\* the other.
TaskLoop(t) ==
  /\ ~panicked
  /\ job[t].pc = "loop"
  /\ IF job[t].loop
       THEN /\ \E gs, gv \in FieldReads :
                 job' = [job EXCEPT ![t] = [@ EXCEPT !.pc = "select", !.selStop = gs, !.selSave = gv]]
            /\ UNCHANGED <<done, panicked>>
     ELSE \E g \in FieldReads :
       IF done[g]
         THEN panicked' = TRUE /\ UNCHANGED <<done, job>>
       ELSE /\ done' = [done EXCEPT ![g] = TRUE]
            /\ job' = [job EXCEPT ![t].pc = "exited"]
            /\ UNCHANGED panicked
  /\ UNCHANGED <<storeVars, cur, save, stop, rw, fsVars, now, faults, caller, ctl, hist>>

\* A stop case that leaves the loop flag as it is.
SelectStop_KeepLoop(t) ==
  /\ ~panicked
  /\ job[t].pc = "select"
  /\ stop[job[t].selStop]
  /\ job' = [job EXCEPT ![t] = [@ EXCEPT !.pc = "snapRLock"]]
  /\ UNCHANGED <<storeVars, chanVars, rw, fsVars, now, faults, caller, ctl, panicked, hist>>

\* case <-s.stop: a receive on the closed channel.
SelectStop(t) ==
  /\ ~panicked
  /\ job[t].pc = "select"
  /\ stop[job[t].selStop]
  /\ job' = [job EXCEPT ![t] = [@ EXCEPT !.pc = "snapRLock", !.loop = FALSE]]
  /\ UNCHANGED <<storeVars, chanVars, rw, fsVars, now, faults, caller, ctl, panicked, hist>>

\* case <-s.save: takes the pending dirty signal.
SelectSave(t) ==
  /\ ~panicked
  /\ job[t].pc = "select"
  /\ save[job[t].selSave] > 0
  /\ save' = [save EXCEPT ![job[t].selSave] = @ - 1]
  /\ job' = [job EXCEPT ![t].pc = "snapRLock"]
  /\ UNCHANGED <<storeVars, cur, stop, done, rw, fsVars, now, faults, caller, ctl, panicked, hist>>

\* A ticker that is made whatever d is.
SelectTick_Always(t) ==
  /\ ~panicked
  /\ job[t].pc = "select"
  /\ job' = [job EXCEPT ![t].pc = "snapRLock"]
  /\ UNCHANGED <<storeVars, chanVars, rw, fsVars, now, faults, caller, ctl, panicked, hist>>

\* case <-c: a tick of the ticker, which exists only when d != 0.
SelectTick(t) ==
  /\ ~panicked
  /\ job[t].pc = "select"
  /\ job[t].d # 0
  /\ job' = [job EXCEPT ![t].pc = "snapRLock"]
  /\ UNCHANGED <<storeVars, chanVars, rw, fsVars, now, faults, caller, ctl, panicked, hist>>

\* s.Lock() before the savedCount update.
UpdLock(t) ==
  /\ ~panicked
  /\ job[t].pc = "updLock"
  /\ CanLock
  /\ rw' = Locked(t)
  /\ job' = [job EXCEPT ![t].pc = "updSet"]
  /\ UNCHANGED <<storeVars, chanVars, fsVars, now, faults, caller, ctl, panicked, hist>>

\* s.savedCount = s.setCount: the live counter instead of the snapshot's.
NewSavedCount_Live(snapshot, sc) == sc

\* s.savedCount = snapshot.setCount + 1
NewSavedCount_OffByOne(snapshot, sc) == snapshot.setCount + 1

\* s.savedCount = snapshot.setCount
NewSavedCount(snapshot, sc) == snapshot.setCount

\* The update and s.Unlock(); back to the top of the loop.
UpdSet(t) ==
  /\ ~panicked
  /\ job[t].pc = "updSet"
  /\ savedCount' = NewSavedCount(job[t].snap, setCount)
  /\ rw' = Unlocked
  /\ job' = [job EXCEPT ![t].pc = "loop"]
  /\ UNCHANGED <<data, diffCount, setCount, chanVars, fsVars, now, faults, caller, ctl, panicked, hist>>

\* ------------------------------------------------------------ specification

CallerStep(p, ks) ==
  \/ \E k \in ks, v \in Values : SetCall(p, k, v)
  \/ \E k \in ks, o \in {"Get", "Delete"} : ReadCall(p, o, k)
  \/ \E o \in {"Keys", "Size"} : ReadCall(p, o, "")
  \/ CallerLock(p)
  \/ SetBody(p)
  \/ GetBody(p)
  \/ GetDecode(p)
  \/ DeleteBody(p)
  \/ KeysBody(p)
  \/ SizeBody(p)
  \/ Return(p)

\* A caller that also calls GetAll and then Set and Delete on the store it
\* got back.
CallerStepAll(p, ks) ==
  \/ CallerStep(p, ks)
  \/ \E f \in Matchers : GetAllCall(p, f)
  \/ GetAllBody(p)
  \/ \E k \in ks, v \in Values : SubSet(p, k, v)
  \/ \E k \in ks : SubDelete(p, k)

\* The goroutine that starts and stops autosave; `once` is the client that
\* calls StartAutoSave on a store only once.
CtlStep(once) ==
  \/ (once => cur = 0) /\ StartLock
  \/ \E f \in AutoNames, d \in Intervals, c \in Thresholds : StartAutoSave(f, d, c)
  \/ StopClose
  \/ StopReturn

\* The autosave goroutine with every file operation succeeding.
TaskRun(t) ==
  \/ TaskLoop(t)
  \/ SelectStop(t)
  \/ SelectSave(t)
  \/ SelectTick(t)
  \/ SnapRLock(t)
  \/ SnapCopy(t)
  \/ Create(t)
  \/ Write(t)
  \/ Close(t)
  \/ UpdLock(t)
  \/ UpdSet(t)

TaskStep(t) ==
  \/ TaskRun(t)
  \/ CreateFail(t)
  \/ WriteFail(t)

\* A goroutine in Save or SaveAndRename with every file operation succeeding.
SaverRun(p) ==
  \/ \E f \in DestNames : SaveCall(p, f)
  \/ \E f \in DestNames : SaveAndRenameCall(p, f)
  \/ Create(p)
  \/ SnapRLock(p)
  \/ SnapCopy(p)
  \/ Write(p)
  \/ Close(p)
  \/ Rename(p)
  \/ Remove(p)

SaverStep(p) ==
  \/ SaverRun(p)
  \/ CreateFail(p)
  \/ WriteFail(p)
  \/ RenameFail(p)

\* The specifications with more than one writer of files keep to one key.
OneKey == {"a"}

\* Any number of callers of Set and Delete (each call one step), one
\* StartAutoSave and its goroutine, StopAutoSave.
Next ==
  \/ \E k \in Keys, v \in Values : Set(k, v)
  \/ \E k \in Keys : Delete(k)
  \/ CtlStep(TRUE)
  \/ \E t \in Tasks : TaskStep(t)

Spec == Init /\ [][Next]_vars

\* The caller whose calls are followed step by step.
Watched == <<"caller", 1>>

\* A caller whose calls take their steps one by one, next to an autosave
\* goroutine whose file operations may never return: the goroutine is only
\* certain to get the locks it asks for and to leave its critical sections,
\* and so is StartAutoSave. The store is a new one, and StopAutoSave is
\* called at most once, while autosave is running.
NextStuck ==
  \/ CallerStep(Watched, OneKey)
  \/ cur = 0 /\ StartLock
  \/ \E f \in AutoNames, d \in Intervals, c \in {0, 1} : StartAutoSave(f, d, c)
  \/ cur # 0 /\ ~stop[cur] /\ StopClose
  \/ StopReturn
  \/ \E t \in Tasks : TaskRun(t)

FairStuck ==
  /\ SF_vars(CallerLock(Watched))
  /\ WF_vars(SetBody(Watched) \/ GetBody(Watched) \/ GetDecode(Watched)
             \/ DeleteBody(Watched)
             \/ KeysBody(Watched) \/ SizeBody(Watched))
  /\ WF_vars(\E f \in AutoNames, d \in Intervals, c \in {0, 1} : StartAutoSave(f, d, c))
  /\ \A t \in Tasks : WF_vars(SnapCopy(t)) /\ SF_vars(UpdLock(t)) /\ WF_vars(UpdSet(t))

\* new(JSONStore) in an empty directory.
InitStuck == InitNew /\ InitCommon

SpecStuck == InitStuck /\ [][NextStuck]_vars /\ FairStuck

\* The same program with an autosave goroutine that is scheduled: every step
\* it can take it takes in the end, its file operations return, it gets the
\* locks it asks for, and its select, which picks among the ready cases at
\* random, does not pass over the stop case forever. StopAutoSave goes on
\* once done is closed.
FairStop ==
  /\ SF_vars(CallerLock(Watched))
  /\ WF_vars(SetBody(Watched) \/ GetBody(Watched) \/ GetDecode(Watched)
             \/ DeleteBody(Watched)
             \/ KeysBody(Watched) \/ SizeBody(Watched))
  /\ WF_vars(StopReturn)
  /\ \A t \in Tasks :
       /\ WF_vars(TaskLoop(t) \/ SnapCopy(t) \/ Create(t) \/ Write(t) \/ Close(t) \/ UpdSet(t))
       /\ SF_vars(SnapRLock(t) \/ UpdLock(t))
       /\ SF_vars(SelectStop(t))

SpecStop == InitStuck /\ [][NextStuck]_vars /\ FairStop

\* One caller whose calls take their steps one by one, GetAll and the use of
\* its result included, next to other callers of Set and Delete (each call one
\* step) and to an autosave that is started once on a new store and not
\* stopped, with every file operation succeeding.
NextCalls ==
  \/ CallerStepAll(Watched, Keys)
  \/ \E k \in Keys, v \in Values : Set(k, v)
  \/ \E k \in Keys : Delete(k)
  \/ cur = 0 /\ StartLock
  \/ \E f \in AutoNames, c \in {0, 1} : StartAutoSave(f, 1, c)
  \/ \E t \in Tasks :
       \/ TaskLoop(t) \/ SelectSave(t) \/ SelectTick(t)
       \/ SnapRLock(t) \/ SnapCopy(t)
       \/ Create(t) \/ Write(t) \/ Close(t)
       \/ UpdLock(t) \/ UpdSet(t)

SpecCalls == InitStuck /\ [][NextCalls]_vars

\* The files a store is opened from besides those a save of Set values
\* wrote: one written by hand with a < in a string, one that holds a null.
TripFiles == {ObjectText(MkMap([k \in {"a"} |-> RawLt])),
              Encode(MkMap([k \in {"a"} |-> <<"null">>]))}

InitTrip ==
  /\ \/ InitNew
     \/ \E text \in TripFiles :
          /\ dir = [x \in {DbPlain} |-> 1]
          /\ ino = [i \in {1} |-> text]
          /\ data = Open(dir, ino, DbPlain).data
  /\ InitCommon

\* Callers that Set numbers and nil and Delete, a caller of Get, and one
\* goroutine that calls Save or SaveAndRename, every file operation
\* succeeding.
NextTrip ==
  \/ \E k \in Keys, v \in {IntVal(1), NilVal} : Set(k, v)
  \/ \E k \in Keys : Delete(k)
  \/ \E k \in Keys : ReadCall(Watched, "Get", k)
  \/ CallerLock(Watched)
  \/ GetBody(Watched)
  \/ GetDecode(Watched)
  \/ Return(Watched)
  \/ SaverRun(<<"saver", 1>>)

SpecTrip == InitTrip /\ [][NextTrip]_vars

\* Two callers on a new store whose calls, all on one key, take their steps
\* one by one and interleave freely.
NextRace == \E p \in Callers : CallerStep(p, OneKey)

SpecRace == InitStuck /\ [][NextRace]_vars

\* Sets made while an autosave without ticker and with a threshold runs on a
\* store and is not stopped: only the dirty signal wakes the goroutine,
\* which is scheduled fairly and whose file operations succeed.
NextBurst ==
  \/ cur = 0 /\ StartLock
  \/ \E f \in AutoNames, c \in {1, 2} : StartAutoSave(f, 0, c)
  \/ cur = 1 /\ \E k \in OneKey, v \in Values : Set(k, v)
  \/ \E t \in Tasks :
       \/ TaskLoop(t) \/ SelectSave(t)
       \/ SnapRLock(t) \/ SnapCopy(t)
       \/ Create(t) \/ Write(t) \/ Close(t)
       \/ UpdLock(t) \/ UpdSet(t)

FairBurst ==
  \A t \in Tasks :
    WF_vars(\/ TaskLoop(t) \/ SelectSave(t)
            \/ SnapRLock(t) \/ SnapCopy(t)
            \/ Create(t) \/ Write(t) \/ Close(t)
            \/ UpdLock(t) \/ UpdSet(t))

SpecBurst == Init /\ [][NextBurst]_vars /\ FairBurst

\* One goroutine that calls Save or SaveAndRename on the file autosave
\* writes, with file operations that may fail, next to Sets and an autosave
\* with a ticker and no threshold that is not stopped.
NextExplicit ==
  \/ \E k \in OneKey, v \in Values : Set(k, v)
  \/ cur = 0 /\ StartLock
  \/ \E f \in AutoNames : StartAutoSave(f, 1, 0)
  \/ \E t \in Tasks :
       \/ TaskLoop(t) \/ SelectTick(t)
       \/ SnapRLock(t) \/ SnapCopy(t)
       \/ Create(t) \/ Write(t) \/ Close(t)
       \/ UpdLock(t) \/ UpdSet(t)
  \/ LET p == <<"saver", 1>> IN
       \/ \E f \in AutoNames : SaveCall(p, f)
       \/ \E f \in AutoNames : SaveAndRenameCall(p, f)
       \/ Create(p) \/ SnapRLock(p) \/ SnapCopy(p)
       \/ Write(p) \/ Close(p) \/ Rename(p) \/ Remove(p)
       \/ CreateFail(p) \/ WriteFail(p) \/ RenameFail(p)

SpecExplicit == Init /\ [][NextExplicit]_vars

\* Open with its counters set from the number of keys loaded.
OpenStore_Dirty(d, n, filename) ==
  [data |-> Open(d, n, filename).data, diffCount |-> 0,
   setCount |-> MapLen(Open(d, n, filename).data), savedCount |-> 0]

\* The store Open returns: &JSONStore{data: data}, every other field zero.
OpenStore(d, n, filename) ==
  [data |-> Open(d, n, filename).data, diffCount |-> 0, setCount |-> 0, savedCount |-> 0]

\* A store opened from a saved file of any map over the keys.
InitLoaded ==
  /\ \E m \in AllMaps :
       /\ dir = [x \in {DbGz} |-> 1]
       /\ ino = [i \in {1} |-> FileBytes(DbGz, m)]
       /\ LET st == OpenStore(dir, ino, DbGz)
          IN /\ data = st.data /\ diffCount = st.diffCount
             /\ setCount = st.setCount /\ savedCount = st.savedCount
  /\ InitRest

\* An opened store on which no Set is made: Deletes, one StartAutoSave on a
\* file other than the one loaded, StopAutoSave, and the goroutine, which
\* takes the steps of a pass that has nothing to save.
NextLoaded ==
  \/ \E k \in Keys : Delete(k)
  \/ cur = 0 /\ StartLock
  \/ \E f \in AutoNames, d \in Intervals, c \in Thresholds : StartAutoSave(f, d, c)
  \/ cur # 0 /\ ~stop[cur] /\ StopClose
  \/ StopReturn
  \/ \E t \in Tasks :
       \/ TaskLoop(t) \/ SelectStop(t) \/ SelectTick(t)
       \/ SnapRLock(t) \/ SnapCopy(t)

SpecLoaded == InitLoaded /\ [][NextLoaded]_vars

\* Save and SaveAndRename by two goroutines while callers Set, with the clock.
NextSave ==
  \/ \E k \in OneKey, v \in Values : Set(k, v)
  \/ \E p \in Savers : SaverStep(p)
  \/ Tick

SpecSave == Init /\ [][NextSave]_vars

\* Autosave next to one goroutine that calls Save or SaveAndRename.
NextIO ==
  \/ \E k \in OneKey, v \in Values : Set(k, v)
  \/ cur = 0 /\ StartLock
  \/ \E f \in AutoNames, d \in Intervals, c \in {0, 1} : StartAutoSave(f, d, c)
  \/ StopClose
  \/ StopReturn
  \/ \E t \in Tasks : TaskRun(t)
  \/ SaverRun(<<"saver", 1>>)

SpecIO == Init /\ [][NextIO]_vars

\* A client that calls StartAutoSave again while autosave is running.
NextRestart ==
  \/ \E k \in OneKey, v \in Values : Set(k, v)
  \/ CtlStep(FALSE)
  \/ \E t \in Tasks : TaskRun(t)

SpecRestart == Init /\ [][NextRestart]_vars


\* ------------------------------------------------------------------- claims

\* The first autosave goroutine and the file it writes.
T1 == TaskOf(1)
AutoFile == job[T1].name

\* The name holds all the bytes of a finished save of some map.
IsComplete(name) ==
  /\ name \in DOMAIN dir
  /\ \E m \in AllMaps : ino[dir[name]] = FileBytes(name, m)

IOStates == {"create", "write", "close", "rename", "remove"}

\* C1: with one StartAutoSave, no failed file operation and no Set or Delete
\* after StopAutoSave was called, once StopAutoSave has returned the autosave
\* file holds a complete snapshot that Open loads, and it maps every key
\* present in the store to the payload of the key's last Set.
C1_FinalSnapshotHasLastSets ==
  (ctl.returned >= 1 /\ cur = 1 /\ faults = 0 /\ ~hist.lateMut /\ setCount > 0)
    => /\ IsComplete(AutoFile)
       /\ LET o == Open(dir, ino, AutoFile)
          IN /\ o.err = NoErr
             /\ \A k \in MapKeys(data) :
                  MapHas(o.data, k) /\ MapGet(o.data, k) = MapGet(data, k)

C1_Witness ==
  /\ ctl.returned >= 1 /\ cur = 1 /\ faults = 0 /\ ~hist.lateMut
  /\ setCount = MaxSets /\ MapKeys(data) = Keys
  /\ MapGet(data, "a") # MapGet(data, "b")

\* C2: whenever savedCount is positive, the autosave file holds a fully
\* written snapshot.
C2_SavedCountIsPersisted ==
  (cur = 1 /\ savedCount > 0) => IsComplete(AutoFile)

\* C3: savedCount never exceeds setCount.
C3_SavedLeSet == savedCount <= setCount

C3_Witness == savedCount > 0 /\ savedCount < setCount

\* C4: a goroutine that is creating, writing, closing, renaming or removing a
\* file holds the store's lock neither in read nor in write mode.
C4_NoLockDuringIO ==
  \A p \in Tasks \cup Savers : job[p].pc \in IOStates => ~HoldsLock(p)

C4_Witness ==
  /\ job[T1].pc = "write" /\ job[T1].snap # NoSnap
  /\ \E p \in Savers : job[p].pc = "rename" /\ job[p].snap # NoSnap

\* C5: whatever the autosave goroutine does, and also when its file write
\* never returns, every call of Set, Get, Delete, Keys and Size that has
\* reached its lock operation returns.
C5_CallsComplete ==
  (caller[Watched].pc = "lock") ~> (caller[Watched].pc = "done")

\* A Set returned while the goroutine was in its write (the Set came after
\* the goroutine's snapshot) and with a dirty signal pending.
C5_Witness ==
  /\ job[T1].pc = "write"
  /\ caller[Watched].pc = "done" /\ caller[Watched].op = "Set"
  /\ caller[Watched].ret.err = NoErr
  /\ setCount > job[T1].snap.setCount
  /\ save[cur] = 1

\* C6: once StopAutoSave has returned, the autosave goroutine has ended with
\* its file closed and no lock held, the files and savedCount change no more,
\* and (no file operation having failed) the file it wrote is complete.
C6_StopWaitsForExit ==
  /\ [](ctl.returned >= 1 =>
          /\ job[T1].pc = "exited" /\ job[T1].fd = NoFd /\ ~HoldsLock(T1)
          /\ (faults = 0 /\ AutoFile \in DOMAIN dir) => IsComplete(AutoFile))
  /\ [][ctl.returned >= 1 =>
          (dir' = dir /\ ino' = ino /\ savedCount' = savedCount /\ job' = job)]_vars

\* StopAutoSave has returned after the goroutine took a snapshot in its last
\* pass, and every Set made so far is saved.
C6_Witness ==
  /\ ctl.returned >= 1 /\ faults = 0
  /\ job[T1].pc = "exited" /\ job[T1].selStop = 1 /\ job[T1].snap # NoSnap
  /\ savedCount = setCount /\ setCount = MaxSets

\* C7: at most one autosave goroutine is active for a store.
C7_OneTaskAtATime ==
  Cardinality({t \in Tasks : job[t].pc \notin {"none", "exited"}}) <= 1

\* C8: while the autosave goroutine waits in its select with a non-zero
\* threshold reached, something wakes it: a pending dirty signal, the ticker,
\* or a closed stop channel.
C8_DueThresholdWakes ==
  (job[T1].pc = "select" /\ diffCount # 0 /\ setCount - savedCount >= diffCount)
    => (save[job[T1].selSave] > 0 \/ job[T1].d # 0 \/ stop[job[T1].selStop])

\* C9: a name that only SaveAndRename has written to holds, whenever it
\* exists, the complete bytes of a save: the previous ones or the new ones.
C9_ReaderSeesWholeFile ==
  \A f \in DestNames :
    (f \in DOMAIN dir /\ f \notin hist.inplace) => IsComplete(f)

\* C10: a SaveAndRename that ran alone and in which a file operation failed
\* returns an error, leaves no temp file, and leaves the destination as it
\* was when the call was made.
C10_FailureLeavesDestination ==
  \A p \in Savers :
    (/\ job[p].op = "SaveAndRename" /\ job[p].pc = "done" /\ job[p].hit
     /\ \A q \in Savers \ {p} : job[q].pc = "idle")
      => /\ job[p].err # NoErr
         /\ job[p].name \notin DOMAIN dir
         /\ FileState(dir, ino, job[p].dest) = job[p].old

\* C11: two SaveAndRename calls on the same destination that overlap in time
\* write to differently named temp files.
C11_TempNamesDistinct ==
  \A p, q \in Savers :
    (/\ p # q
     /\ job[p].op = "SaveAndRename" /\ job[q].op = "SaveAndRename"
     /\ job[p].pc \notin {"idle", "done"} /\ job[q].pc \notin {"idle", "done"}
     /\ job[p].dest = job[q].dest)
      => job[p].name # job[q].name

\* The keys whose last operation is a Set (or that Open loaded, with no
\* Delete since), and the payload they were given.
Present == DOMAIN hist.last

\* C12: a store returned by snapshot() or GetAll() keeps its keys and payloads
\* whatever is Set or Deleted on the live store while it is held, and Set and
\* Delete on a store GetAll returned leave the live store's mapping and
\* counters as they are.
C12_SnapshotsDisjoint ==
  [][/\ \A p \in Tasks \cup Savers :
          (job[p].snap # NoSnap /\ job'[p].snap = job[p].snap)
            => Held(job[p].snap)' = Held(job[p].snap)
     /\ \A p \in Callers :
          (caller[p].pc = "done" /\ caller[p].op = "GetAll" /\ caller'[p].pc = "done")
            => IF caller'[p].ret.store = caller[p].ret.store
                 THEN Held(caller[p].ret.store)' = Held(caller[p].ret.store)
               ELSE data' = data /\ setCount' = setCount /\ savedCount' = savedCount]_vars

\* The goroutine holds a snapshot older than the live store, and the caller
\* holds a store from GetAll; each differs from the live store in its keys,
\* and the caller's store also in the payload of a key both have.
C12_Witness ==
  /\ job[T1].snap # NoSnap /\ job[T1].snap.setCount < setCount
  /\ MapKeys(job[T1].snap.data) # MapKeys(data)
  /\ caller[Watched].pc = "done" /\ caller[Watched].op = "GetAll"
  /\ \E k \in Keys :
       /\ MapHas(caller[Watched].ret.store.data, k) /\ MapHas(data, k)
       /\ MapGet(caller[Watched].ret.store.data, k) # MapGet(data, k)
  /\ MapKeys(caller[Watched].ret.store.data) # MapKeys(data)

\* C13: while a goroutine is inside snapshot() with the read lock, the live
\* mapping and setCount do not change; the snapshot it returns has the live
\* mapping and the live setCount of that instant; and what a save then writes
\* is the encoding of that snapshot.
C13_PointInTime ==
  /\ [][\A p \in Tasks \cup Savers :
          /\ (job[p].pc = "snapCopy" /\ job'[p].pc = "snapCopy")
               => (data' = data /\ setCount' = setCount)
          /\ (job[p].pc = "snapCopy" /\ job'[p].pc # "snapCopy" /\ job'[p].snap # NoSnap)
               => /\ ~job'[p].snap.data.nil
                  /\ job'[p].snap.data.kv = data.kv
                  /\ job'[p].snap.setCount = setCount
                  /\ data' = data /\ setCount' = setCount]_vars
  /\ [](\A p \in Tasks \cup Savers :
          job[p].pc = "write" =>
            \E i \in 1..Len(WriteSteps(job[p].name, job[p].snap.data)) :
              job[p].todo = SubSeq(WriteSteps(job[p].name, job[p].snap.data), i,
                                   Len(WriteSteps(job[p].name, job[p].snap.data))))

\* A goroutine in Save writes a snapshot that a later Set has made old.
C13_Witness ==
  \E p \in Savers :
    /\ job[p].pc = "write" /\ job[p].op = "Save"
    /\ job[p].snap.setCount < setCount
    /\ job[p].snap.data # data

\* C14: when the autosave goroutine calls snapshot(true) again after a call
\* that returned a snapshot, and no Set was made since that call, the second
\* call returns nil.
C14_SecondSnapshotSkips ==
  [][\A t \in Tasks :
       (/\ job[t].pc = "snapCopy" /\ job'[t].pc # "snapCopy"
        /\ job[t].snap # NoSnap /\ job[t].snap.setCount = setCount)
         => job'[t].snap = NoSnap]_vars

\* A first call returned the snapshot that was saved, a second call has
\* returned nil, and the goroutine is back in its select.
C14_Witness ==
  /\ job[T1].pc = "select" /\ job[T1].snap = NoSnap
  /\ savedCount > 0 /\ savedCount = setCount /\ faults = 0
  /\ IsComplete(AutoFile)

\* C15: with autosave at rest in its select, no file operation having failed,
\* a store that is not dirty (setCount = savedCount) has every mutation in the
\* autosave file: the file decodes to the live mapping.
C15_CleanMeansSaved ==
  (/\ cur = 1 /\ faults = 0 /\ job[T1].pc = "select"
   /\ savedCount > 0 /\ setCount = savedCount)
    => LET o == Open(dir, ino, AutoFile)
       IN o.err = NoErr /\ o.data.kv = data.kv

\* C16: a Get of a key whose last operation is a Set succeeds and yields the
\* value that Set was given: under its lock the Get finds the payload of that
\* Set, and after the lock it returns no error and the value that payload
\* encodes, whatever was done to the store since the read.
C16_GetAfterSet ==
  [][\A p \in Callers :
       /\ (/\ caller[p].pc = "body" /\ caller[p].op = "Get" /\ caller'[p].pc = "unlocked"
           /\ caller[p].key \in Present)
            => /\ caller'[p].ok
               /\ caller'[p].buf = hist.last[caller[p].key]
               /\ caller'[p].buf \in Payloads
       /\ (/\ caller[p].pc = "unlocked" /\ caller[p].op = "Get" /\ caller[p].ok
           /\ caller'[p] # caller[p])
            => /\ caller'[p].pc = "done"
               /\ caller'[p].ret.err = NoErr
               /\ Marshal(caller'[p].ret.val) = [err |-> NoErr, b |-> caller[p].buf]]_vars

\* Get has returned the second value given to key a, with another key in the
\* store and the autosave goroutine in a write.
C16_Witness ==
  /\ caller[Watched].pc = "done" /\ caller[Watched].op = "Get"
  /\ caller[Watched].key = "a" /\ caller[Watched].ret.err = NoErr
  /\ "a" \in Present /\ Marshal(caller[Watched].ret.val).b = hist.last["a"]
  /\ setCount = MaxSets /\ "b" \notin Present
  /\ job[T1].pc = "write"

\* C17: a Get of a key that is absent fails with NoSuchKeyError of that key
\* and changes neither the mapping nor the counters: under its lock the Get
\* finds no entry and writes nothing, and after the lock it returns the error
\* and writes nothing.
C17_GetAbsent ==
  [][\A p \in Callers :
       /\ (/\ caller[p].pc = "body" /\ caller[p].op = "Get" /\ caller'[p].pc = "unlocked"
           /\ caller[p].key \notin Present)
            => /\ ~caller'[p].ok
               /\ data' = data /\ setCount' = setCount /\ savedCount' = savedCount
       /\ (/\ caller[p].pc = "unlocked" /\ caller[p].op = "Get" /\ ~caller[p].ok
           /\ caller'[p] # caller[p])
            => /\ caller'[p].pc = "done"
               /\ caller'[p].ret.err = "jsonstore: no such key \"" \o caller[p].key \o "\""
               /\ data' = data /\ setCount' = setCount /\ savedCount' = savedCount]_vars

\* Get failed on key a, which was Set and then deleted, and on a store that
\* has key b.
C17_Witness ==
  /\ caller[Watched].pc = "done" /\ caller[Watched].op = "Get"
  /\ caller[Watched].key = "a"
  /\ caller[Watched].ret.err = NoSuchKeyError("a")
  /\ Present = {"b"} /\ setCount = MaxSets

\* C18: the keys of the map are exactly the keys whose last operation is a
\* Set; Size returns their number, Keys returns each of them once, and a
\* Delete of an absent key changes nothing and returns.
C18_SizeKeysDelete ==
  /\ [](MapKeys(data) = Present)
  /\ [][\A p \in Callers :
          (caller[p].pc = "body" /\ caller'[p].pc = "done") =>
            /\ caller[p].op = "Size" => caller'[p].ret.n = Cardinality(Present)
            /\ caller[p].op = "Keys" =>
                 /\ Len(caller'[p].ret.keys) = Cardinality(Present)
                 /\ {caller'[p].ret.keys[i] : i \in DOMAIN caller'[p].ret.keys} = Present
            /\ (caller[p].op = "Delete" /\ caller[p].key \notin Present) =>
                 /\ data' = data /\ setCount' = setCount /\ savedCount' = savedCount
                 /\ caller'[p].ret.err = NoErr]_vars

\* Keys has returned both keys, second key first.
C18_Witness ==
  /\ caller[Watched].pc = "done" /\ caller[Watched].op = "Keys"
  /\ caller[Watched].ret.keys = <<"b", "a">>
  /\ Present = {"a", "b"}

\* C20: the store GetAll returns has a map of its own whose keys are the
\* source's keys that the matcher accepts (all of them for a nil matcher),
\* each with the source's payload at the time of the call.
C20_GetAllFilters ==
  [][\A p \in Callers :
       (caller[p].pc = "body" /\ caller[p].op = "GetAll" /\ caller'[p].pc = "done") =>
         LET st == caller'[p].ret.store
             f == caller[p].match
             want == {k \in Present : f.nil \/ k \in f.yes}
         IN /\ ~st.shared /\ ~st.data.nil
            /\ MapKeys(st.data) = want
            /\ \A k \in want : MapGet(st.data, k) = hist.last[k]]_vars

\* GetAll with a matcher that accepts only key a has returned a store with
\* that key alone, from a store that has both keys.
C20_Witness ==
  /\ caller[Watched].pc = "done" /\ caller[Watched].op = "GetAll"
  /\ caller[Watched].match = Matcher({"a"})
  /\ MapKeys(caller[Watched].ret.store.data) = {"a"}
  /\ caller[Watched].ret.store.setCount = setCount
  /\ Present = {"a", "b"}

\* C19: when Save has returned without error and the store is as it was at
\* Save's snapshot, Open of the saved path succeeds and gives a store with
\* the same keys and, for every key, the same payload, with and without .gz.
C19_SaveOpenRoundTrip ==
  \A p \in Savers :
    (/\ job[p].op = "Save" /\ job[p].pc = "done" /\ job[p].err = NoErr
     /\ job[p].snap.data.kv = data.kv)
      => LET o == Open(dir, ino, job[p].name)
         IN /\ o.err = NoErr
            /\ MapKeys(o.data) = MapKeys(data)
            /\ \A k \in MapKeys(data) : MapGet(o.data, k) = MapGet(data, k)

\* C21: a Set whose value cannot be encoded returns the encode error before
\* it takes the lock, and the mapping, the counters and the dirty signal stay
\* as they are; a Set that succeeds gives the key the encoded value, leaves the
\* other keys alone and adds exactly 1 to setCount; and no payload in the
\* store is the empty result of a failed encoding.
C21_SetErrorChangesNothing ==
  /\ [][\A p \in Callers :
          /\ (caller[p].pc = "idle" /\ caller'[p].op = "Set") =>
               \/ /\ caller'[p].pc = "lock"
                  /\ Unmarshal(caller'[p].buf).err = NoErr
               \/ /\ caller'[p].pc = "done"
                  /\ caller'[p].ret.err = ErrUnsupported
                  /\ data' = data /\ setCount' = setCount
                  /\ savedCount' = savedCount /\ save' = save
          /\ (caller[p].pc = "body" /\ caller[p].op = "Set" /\ caller'[p].pc = "done") =>
               /\ caller'[p].ret.err = NoErr
               /\ MapKeys(data') = MapKeys(data) \cup {caller[p].key}
               /\ MapGet(data', caller[p].key) = caller[p].buf
               /\ \A k \in MapKeys(data) \ {caller[p].key} : MapGet(data', k) = MapGet(data, k)
               /\ setCount' = setCount + 1
               /\ savedCount' = savedCount]_vars
  /\ [](\A k \in MapKeys(data) : Unmarshal(MapGet(data, k)).err = NoErr)

\* A Set of a channel on key a has returned the encode error, the key keeps
\* the value of an earlier Set, and a Set on it succeeded before.
C21_Witness ==
  /\ caller[Watched].pc = "done" /\ caller[Watched].op = "Set"
  /\ caller[Watched].key = "a" /\ caller[Watched].ret.err = ErrUnsupported
  /\ "a" \in Present /\ MapGet(data, "a") = hist.last["a"]
  /\ setCount = 1 /\ diffCount = 1 /\ save[cur] = 1

\* No call is between its entry and its return value being ready.
Quiescent == \A p \in Callers : caller[p].pc \in {"idle", "done"}

\* C22: with two callers running Set, Delete and Get on one key in any
\* interleaving, a caller inside the critical section of Set or Delete is
\* alone in a critical section, and the mapping does not change while some
\* caller stays inside one; a Get that succeeds returns the whole value of the
\* last Set that had the lock before the Get read the key under its own lock,
\* also when another Set wrote the key before the Get decoded what it read;
\* and when no call is in progress the key holds the payload of the last Set
\* to get the lock, or is absent when a Delete got the lock after that Set.
C22_Linearized ==
  /\ [](\A p, q \in Callers :
          (p # q /\ caller[p].pc = "body" /\ caller[p].op \in {"Set", "Delete"})
            => caller[q].pc # "body")
  /\ [][\A p \in Callers :
          /\ (caller[p].pc = "body" /\ caller'[p].pc = "body") => data' = data
          /\ (/\ caller[p].pc = "body" /\ caller[p].op = "Get" /\ caller'[p].pc = "unlocked"
              /\ caller'[p].ok)
               => /\ caller[p].key \in Present
                  /\ caller'[p].buf = hist.last[caller[p].key]
          /\ (/\ caller[p].pc = "unlocked" /\ caller[p].op = "Get" /\ caller'[p].pc = "done"
              /\ caller'[p].ret.err = NoErr)
               => /\ caller[p].ok /\ caller[p].buf \in Payloads
                  /\ Marshal(caller'[p].ret.val) = [err |-> NoErr, b |-> caller[p].buf]]_vars
  /\ [](Quiescent =>
          \A k \in Keys :
            IF k \in Present THEN MapHas(data, k) /\ MapGet(data, k) = hist.last[k]
            ELSE ~MapHas(data, k))

\* A Get has returned the value of the one Set made so far while the other
\* caller, with a Set of another value on the same key, waits for the lock.
C22_Witness ==
  /\ caller[Watched].pc = "done" /\ caller[Watched].op = "Get"
  /\ caller[Watched].ret.err = NoErr /\ caller[Watched].ret.val = StrVal("x")
  /\ \E q \in Callers \ {Watched} :
       /\ caller[q].pc = "lock" /\ caller[q].op = "Set"
       /\ caller[q].key = caller[Watched].key /\ caller[q].buf = <<"1">>
  /\ setCount = 1

\* C22 as stated: once Sets were made on the key and no call is in progress,
\* the key holds the payload of a Set.
C22_KeyHoldsLastSet ==
  (Quiescent /\ setCount > 0) =>
    \A k \in OneKey : MapHas(data, k) /\ MapGet(data, k) \in Payloads

\* C23: the autosave goroutine leaves its loop only through the stop case of
\* its select: its loop flag is false only once its stop channel is closed, it
\* ends only with the flag false, and a save that failed is followed by the
\* savedCount update and the top of the loop, from where the goroutine with
\* its flag true enters the select again.
C23_FailedSaveKeepsRunning ==
  /\ [](\A t \in Tasks :
          /\ ~job[t].loop => stop[job[t].selStop]
          /\ job[t].pc = "exited" => ~job[t].loop)
  /\ [][\A t \in Tasks :
          /\ (job[t].pc \in {"create", "write", "close"} /\ job'[t].pc \notin {"create", "write", "close"})
               => job'[t].pc = "updLock" /\ job'[t].loop = job[t].loop
          /\ (job[t].pc = "updSet" /\ job'[t].pc # "updSet") => job'[t].pc = "loop"
          /\ (job[t].pc = "loop" /\ job[t].loop /\ job'[t] # job[t]) => job'[t].pc = "select"]_vars

\* After a save that failed the goroutine is back in its select, with no stop
\* requested and a Set made since waiting for the next wake.
C23_Witness ==
  /\ job[T1].hit /\ job[T1].err = ErrIO /\ faults = 1
  /\ job[T1].pc = "select" /\ job[T1].loop
  /\ ~stop[1] /\ ctl.stops = 0
  /\ setCount > savedCount

\* C24: no step lowers setCount or savedCount.
C24_CountersMonotone ==
  [][setCount' >= setCount /\ savedCount' >= savedCount]_vars

\* C25: the update after a save sets savedCount to the setCount of the
\* snapshot that was saved and leaves setCount alone, so that setCount -
\* savedCount is then the number of Sets made since that snapshot was taken;
\* with such Sets outstanding the next snapshot(true) does not skip and holds
\* them; and once StopAutoSave has returned, with no Set made after it was
\* called, nothing is outstanding.
C25_SavedCountIsSnapshotCount ==
  /\ [][\A t \in Tasks :
          /\ (job[t].pc = "updSet" /\ job'[t].pc # "updSet")
               => /\ savedCount' = job[t].snap.setCount
                  /\ setCount' = setCount
                  /\ setCount' - savedCount' = setCount - job[t].snap.setCount
          /\ (job[t].pc = "snapCopy" /\ job'[t].pc # "snapCopy" /\ setCount # savedCount)
               => /\ job'[t].snap # NoSnap
                  /\ job'[t].snap.setCount = setCount
                  /\ job'[t].snap.data.kv = data.kv]_vars
  /\ []((ctl.returned >= 1 /\ ~hist.lateMut) => savedCount = setCount)

\* The update was made after a save during which a Set was made: savedCount
\* is the snapshot's count and one Set is outstanding.
C25_Witness ==
  /\ job[T1].pc = "loop" /\ job[T1].loop /\ job[T1].snap # NoSnap
  /\ savedCount = job[T1].snap.setCount
  /\ setCount = savedCount + 1 /\ savedCount > 0
  /\ MapHas(data, "a") /\ MapHas(job[T1].snap.data, "a")
  /\ MapGet(data, "a") # MapGet(job[T1].snap.data, "a")

\* C26: a save channel never holds more than one signal; a Set that reaches
\* the threshold while a signal is pending leaves the channel as it is, and
\* the channel never keeps a Set from being made; and every Set made up to a
\* moment at which a signal is pending is saved by a later cycle of the
\* goroutine.
C26_SignalCoalesces ==
  /\ [](\A g \in Gens : save[g] <= 1)
  /\ [][(cur # 0 /\ save[cur] = 1 /\ setCount' = setCount + 1
         /\ ShouldSignal(diffCount, setCount', savedCount))
          => save' = save]_vars
  /\ []((cur = 1 /\ rw = Unlocked /\ setCount < MaxSets) => ENABLED Set("a", IntVal(1)))
  /\ \A n \in 1..MaxSets :
       (cur = 1 /\ save[1] = 1 /\ setCount >= n) ~> (savedCount >= n)

\* Two Sets reached the threshold of 1 while the goroutine stayed in its
\* select: one signal is pending for the two of them.
C26_Witness ==
  /\ cur = 1 /\ diffCount = 1 /\ job[T1].pc = "select"
  /\ setCount = 2 /\ savedCount = 0 /\ save[1] = 1

\* C27: once StopAutoSave has closed the stop channel of a running autosave,
\* the goroutine ends and StopAutoSave returns, whatever ticks and dirty
\* signals are ready and whatever a caller goes on doing.
C27_StopTerminates ==
  (ctl.pc = "wait") ~> (ctl.returned >= 1 /\ job[T1].pc = "exited" /\ done[1])

\* StopAutoSave has returned from an autosave with a ticker, with a dirty
\* signal still pending from a Set made after the stop was requested.
C27_Witness ==
  /\ ctl.returned >= 1 /\ job[T1].pc = "exited"
  /\ job[T1].d = 1 /\ save[1] = 1 /\ hist.lateMut
  /\ caller[Watched].pc = "lock"

\* C28: a goroutine started with interval 0 leaves its select only by taking
\* a dirty signal or by the stop case; with threshold 0 no step adds a dirty
\* signal; with both 0 the goroutine takes no snapshot and creates no file
\* while no stop is requested, and creates a file only in its last pass; and
\* the last pass, like any other, goes on to save exactly when setCount and
\* savedCount differ.
C28_ZeroDisablesWake ==
  /\ [][\A t \in Tasks :
          /\ (job[t].pc = "select" /\ job'[t].pc # "select" /\ job[t].d = 0)
               => \/ save'[job[t].selSave] = save[job[t].selSave] - 1 /\ job'[t].loop
                  \/ stop[job[t].selStop] /\ ~job'[t].loop /\ save' = save
          /\ (job[t].pc = "create" /\ job'[t].pc # "create" /\ job[t].d = 0 /\ diffCount = 0)
               => ~job[t].loop
          /\ (job[t].pc = "snapCopy" /\ job'[t].pc # "snapCopy")
               => job'[t].pc = (IF setCount # savedCount THEN "create" ELSE "loop")]_vars
  /\ [][diffCount = 0 => \A g \in Gens : save'[g] <= save[g]]_vars
  /\ [](\A t \in Tasks :
          (job[t].op = "auto" /\ job[t].d = 0 /\ diffCount = 0 /\ ~stop[cur])
            => /\ job[t].pc \in {"loop", "select"} /\ job[t].snap = NoSnap
               /\ job[t].name \notin hist.inplace /\ savedCount = 0)

\* A goroutine started with interval 0 and threshold 0 has ended after a stop:
\* its last pass saved the two Sets made while it waited.
C28_Witness ==
  /\ job[T1].pc = "exited" /\ job[T1].d = 0 /\ diffCount = 0
  /\ job[T1].snap.setCount = 2 /\ savedCount = 2 /\ faults = 0
  /\ AutoFile \in hist.inplace /\ IsComplete(AutoFile)

\* C29: the autosave goroutine writes the file it was given under its own
\* name and never renames: its os.Create empties the existing file in place,
\* and while it writes, and after a write of it has failed, a reader of that
\* name gets the part of the new bytes written so far, from nothing to all of
\* them, and nothing of the previous content.
C29_AutosaveInPlace ==
  /\ [](\A t \in Tasks :
          job[t].op = "auto" =>
            /\ job[t].name \in AutoNames /\ job[t].dest = <<>>
            /\ job[t].pc \notin {"rename", "remove"}
            /\ job[t].fd # NoFd =>
                 /\ job[t].name \in DOMAIN dir /\ dir[job[t].name] = job[t].fd.ino
                 /\ FileState(dir, ino, job[t].name).c =
                      SubSeq(FileBytes(job[t].name, job[t].snap.data), 1, job[t].fd.off))
  /\ [][\A t \in Tasks :
          (job[t].pc = "create" /\ job'[t].pc = "write")
            => /\ job[t].name \in DOMAIN dir => dir'[job[t].name] = dir[job[t].name]
               /\ FileState(dir', ino', job[t].name) = [exists |-> TRUE, c |-> <<>>]]_vars

\* The first cycle saved the first Set; in the second cycle a write failed
\* midway, and the file holds part of the new bytes: neither the previous
\* save nor the new one can be read from it.
C29_Witness ==
  /\ job[T1].pc = "close" /\ job[T1].hit /\ faults = 1
  /\ savedCount = 1 /\ job[T1].snap.setCount = 2
  /\ job[T1].fd.off > 0
  /\ job[T1].fd.off < Len(FileBytes(AutoFile, job[T1].snap.data))
  /\ ~IsComplete(AutoFile)
  /\ Open(dir, ino, AutoFile).err # NoErr

\* C30: a snapshot(true) of the autosave goroutine that finds setCount equal
\* to savedCount returns nil and sends the goroutine back to the top of its
\* loop; the goroutine creates a file only after a snapshot(true) that found
\* them different, and savedCount is assigned only by a goroutine that saved;
\* so from a wake to the next, or to the goroutine's end after a stop, such a
\* pass leaves the files and savedCount as they are.
C30_CleanWakeDoesNothing ==
  [][/\ \A t \in Tasks :
          /\ (job[t].pc = "snapCopy" /\ job'[t].pc # "snapCopy" /\ setCount = savedCount)
               => job'[t].pc = "loop" /\ job'[t].snap = NoSnap
          /\ (job[t].pc # "create" /\ job'[t].pc = "create")
               => job[t].pc = "snapCopy" /\ setCount # savedCount
          /\ (/\ job[t].pc \in {"loop", "select", "snapRLock", "snapCopy"}
              /\ job'[t] # job[t]
              /\ job'[t].pc \in {"loop", "select", "snapRLock", "snapCopy", "exited"})
               => dir' = dir /\ ino' = ino /\ savedCount' = savedCount
     /\ savedCount' # savedCount => \E t \in Tasks : job[t].pc = "updSet"]_vars

\* The goroutine saved both Sets in one pass; its last pass, after the stop,
\* found nothing to save, and it has ended leaving the saved file as it was.
C30_Witness ==
  /\ job[T1].pc = "exited" /\ job[T1].snap = NoSnap
  /\ setCount = 2 /\ savedCount = 2 /\ faults = 0
  /\ IsComplete(AutoFile) /\ Open(dir, ino, AutoFile).data.kv = data.kv

\* C31: StopAutoSave gets past close(s.stop), and returns, at most once for
\* each StartAutoSave, and only with autosave started and its stop channel
\* open; the program panics only in a StopAutoSave called with the stop
\* channel nil or closed, and such a call, when it is made, panics.
C31_StopOnlyOnce ==
  /\ [](ctl.stops <= cur /\ ctl.returned <= ctl.stops)
  /\ [][/\ (ctl.pc = "idle" /\ ctl'.pc = "wait") => (cur # 0 /\ ~stop[cur])
        /\ (~panicked /\ panicked')
             => /\ ctl.pc = "idle" /\ (cur = 0 \/ stop[cur])
                /\ ctl' = ctl /\ stop' = stop /\ done' = done]_vars
  /\ []((~panicked /\ ctl.pc = "idle" /\ ctl.stops < MaxStops /\ (cur = 0 \/ stop[cur]))
          => ENABLED (StopClose /\ panicked'))

\* StopAutoSave returned once, and a second call has panicked.
C31_Witness ==
  /\ panicked /\ cur = 1 /\ stop[1]
  /\ ctl.returned = 1 /\ ctl.stops = 1 /\ ctl.pc = "idle"
  /\ job[T1].pc = "exited"

\* C32: no step of a goroutine in Save or SaveAndRename, failed file
\* operations included, changes the live mapping, setCount or savedCount; so
\* a store that is dirty stays dirty when a Save has returned, and the next
\* snapshot(true) of the autosave goroutine does not skip: the goroutine goes
\* on to write the live contents.
C32_ExplicitSaveKeepsDirty ==
  [][/\ \A p \in Savers :
          job'[p] # job[p]
            => data' = data /\ setCount' = setCount /\ savedCount' = savedCount
     /\ \A t \in Tasks :
          (/\ job[t].pc = "snapCopy" /\ job'[t].pc # "snapCopy"
           /\ setCount # savedCount
           /\ \E p \in Savers : job[p].pc = "done" /\ job[p].snap.setCount = setCount)
            => /\ job'[t].pc = "create"
               /\ job'[t].snap.data.kv = data.kv
               /\ job'[t].snap.setCount = setCount]_vars

\* Save to the autosave file has returned without error with both Sets in
\* its snapshot, no autosave cycle has finished, and the goroutine is about
\* to write the same contents again.
C32_Witness ==
  \E p \in Savers :
    /\ job[p].op = "Save" /\ job[p].pc = "done" /\ job[p].err = NoErr
    /\ job[p].name = AutoFile /\ job[p].snap.setCount = 2
    /\ setCount = 2 /\ savedCount = 0
    /\ ino[dir[AutoFile]] = FileBytes(AutoFile, data)
    /\ job[T1].pc = "create" /\ job[T1].snap.setCount = 2

\* C33: on a store that Open returned and on which no Set is made, setCount
\* and savedCount are 0 whatever was loaded, and an autosave started on
\* another file never takes a snapshot, never reaches a file operation and
\* never creates its file, on a tick or on the last pass after a stop; the
\* file the store was loaded from stays as it was.
C33_OpenedStoreIsClean ==
  /\ [](/\ setCount = 0 /\ savedCount = 0
        /\ \A f \in AutoNames : f \notin DOMAIN dir
        /\ \A t \in Tasks : job[t].snap = NoSnap /\ job[t].pc \notin IOStates
        /\ DOMAIN dir = {DbGz} /\ IsComplete(DbGz))
  /\ [][ino' = ino /\ dir' = dir]_vars

\* A store loaded with two keys: the goroutine, started with a ticker and a
\* threshold, has ended after StopAutoSave and its file does not exist.
C33_Witness ==
  /\ ctl.returned = 1 /\ job[T1].pc = "exited"
  /\ job[T1].d = 1 /\ diffCount = 1 /\ job[T1].name = DbPlain
  /\ MapLen(data) = 2 /\ MapKeys(Open(dir, ino, DbGz).data) = Keys
  /\ DbPlain \notin DOMAIN dir

====
